---- MODULE Spec2Model ----
(***************************************************************************)
(* vite-plugin-mkcert: the Mkcert class (binary provisioning and           *)
(* certificate regeneration) and the plugin's config hook.                 *)
(*                                                                         *)
(* Every method of the class is an operator from a "world" record (the     *)
(* file system, the persisted VersionStore and CertRecord, and the log of  *)
(* the running call) to the world after it; a thrown error is the field    *)
(* err, which every caller propagates.  The outcomes of the collaborators  *)
(* (source provider, downloader, external binary) are inputs of the        *)
(* actions.                                                                *)
(***************************************************************************)
EXTENDS Integers, Sequences, FiniteSets, TLC

VARIABLES
  autoUpgrade,      \* MkcertOptions.autoUpgrade
  mkcertLocalPath,  \* MkcertOptions.mkcertPath ("" when not configured)
  files,            \* the file system: path -> content (NoFile when absent)
  version,          \* VersionStore: None or Some(version string)
  record,           \* CertRecord: None or Some([hosts, hash])
  configLoaded,     \* config.init() has run in this process
  call              \* the log of the last public call

vars == <<autoUpgrade, mkcertLocalPath, files, version, record, configLoaded, call>>

----------------------------------------------------------------------------
(* Bounds *)

MaxHosts == 2       \* longest host list passed to install
MaxVer == 1         \* largest value of a version field

----------------------------------------------------------------------------
(* Values *)

None == <<>>
Some(x) == <<x>>
IsSome(o) == Len(o) = 1
Val(o) == o[1]

NoFile == 0

KEY_FILE_PATH == "certs/dev.key"
CERT_FILE_PATH == "certs/dev.pem"
mkcertSavedPath == "mkcert"
LocalPath == "/opt/bin/mkcert"
NoPath == ""
Undefined == "undefined"

Paths == {KEY_FILE_PATH, CERT_FILE_PATH, mkcertSavedPath, LocalPath}

Hosts == {"localhost", "127.0.0.1"}

RECURSIVE SeqsUpTo(_, _)
SeqsUpTo(S, n) ==
  IF n = 0 THEN {<<>>}
  ELSE LET shorter == SeqsUpTo(S, n - 1)
       IN shorter \cup {Append(s, x) : s \in {t \in shorter : Len(t) = n - 1}, x \in S}

HostLists == SeqsUpTo(Hosts, MaxHosts)

Range(s) == {s[i] : i \in 1..Len(s)}

\* A version string: three numeric fields, or a string with no version in it.
Versions == {<<a, b, c>> : a \in 0..MaxVer, b \in 0..MaxVer, c \in 0..MaxVer}
Garbage == <<>>
VersionStrings == Versions \cup {Garbage}

DownloadUrl == "https://example/mkcert"
SourceInfos == {None} \cup {Some([version |-> v, downloadUrl |-> DownloadUrl]) : v \in VersionStrings}

NoError == "none"
ENOENT == "ENOENT"
ExecError == "exec failed"
DownloadError == "download failed"

\* The world a method runs in.
World ==
  [files |-> files, version |-> version, record |-> record,
   configLoaded |-> configLoaded,
   trace |-> <<>>, cmds |-> <<>>, downloads |-> <<>>, info |-> None,
   installArg |-> None,
   err |-> NoError, ret |-> None]

Failed(w) == w.err # NoError
Throw(w, e) == [w EXCEPT !.err = e]
Log(w, ev) == [w EXCEPT !.trace = Append(@, ev)]
Return(w, v) == [w EXCEPT !.ret = v]

----------------------------------------------------------------------------
(* lib/util and fs *)

exists(w, path) == w.files[path] # NoFile

\* A content hash: injective on contents, and a missing file hashes to a value
\* no file content hashes to.
HashOf(content) == IF content = NoFile THEN <<"nohash">> ELSE <<"sha", content>>
getHash(w, path) == HashOf(w.files[path])

\* fs.promises.readFile
readFile(w, path) ==
  IF exists(w, path) THEN Return(w, w.files[path]) ELSE Throw(w, ENOENT)

\* File contents are numbers: a generated key or certificate is positive, and
\* Altered(c) is what an outside modification makes of it.
Altered(c) == 0 - c
Abs(c) == IF c < 0 THEN 0 - c ELSE c

\* Content of a freshly generated file: the first one that differs from what
\* is (or was, before alteration) on disk and from what the record remembers.
UsedContents(w) ==
  {Abs(w.files[KEY_FILE_PATH]), Abs(w.files[CERT_FILE_PATH])}
    \cup (IF IsSome(w.record)
          THEN {c \in 1..5 :
                  HashOf(c) \in {Val(w.record).hash.key, Val(w.record).hash.cert}}
          ELSE {})
Fresh(w) == CHOOSE c \in 1..5 :
              /\ c \notin UsedContents(w)
              /\ \A d \in 1..(c - 1) : d \in UsedContents(w)

\* exec(cmd): runs the external binary.  A command whose binary is undefined
\* cannot be spawned; otherwise the invocation succeeds (ok) and writes a new
\* key and certificate, or fails and writes nothing.
exec(w, cmd, ok) ==
  LET w1 == [Log(w, "exec") EXCEPT !.cmds = Append(@, cmd)]
  IN IF cmd.bin = Undefined \/ ~ok
     THEN Throw(w1, ExecError)
     ELSE LET c == Fresh(w1)
          IN [w1 EXCEPT !.files[KEY_FILE_PATH] = c, !.files[CERT_FILE_PATH] = c]

----------------------------------------------------------------------------
(* Record (CertRecord) *)

recordContains(w, hosts) ==
  /\ IsSome(w.record)
  /\ Range(Val(w.record).hosts) = Range(hosts)

recordTamper(w, hash) ==
  \/ ~IsSome(w.record)
  \/ Val(w.record).hash # hash

recordUpdate(w, hosts, hash) ==
  [Log(w, "record.update") EXCEPT !.record = Some([hosts |-> hosts, hash |-> hash])]

----------------------------------------------------------------------------
(* VersionManger (VersionStore) and Downloader *)

parseVersion(str) ==
  IF Len(str) = 3
  THEN Some([major |-> str[1], minor |-> str[2], patch |-> str[3]])
  ELSE None

Greater(a, b) ==
  \/ a.major > b.major
  \/ a.major = b.major /\ a.minor > b.minor
  \/ a.major = b.major /\ a.minor = b.minor /\ a.patch > b.patch

\* compare(latest): the installed version is the one in VersionStore.  An
\* unparsable latest version is no upgrade; an absent or unknown installed
\* version always is, and has no major version to differ from.
versionCompare(w, latest) ==
  LET cur == IF IsSome(w.version) THEN parseVersion(Val(w.version)) ELSE None
      next == parseVersion(latest)
      should == IF ~IsSome(next) THEN FALSE
                ELSE IF ~IsSome(cur) THEN TRUE
                ELSE Greater(Val(next), Val(cur))
      breaking == should /\ IsSome(cur) /\ Val(next).major # Val(cur).major
  IN [currentVersion |-> w.version, nextVersion |-> latest,
      shouldUpdate |-> should, breakingChange |-> breaking]

versionUpdate(w, v) == [Log(w, "version.update") EXCEPT !.version = Some(v)]

\* download(url, dest): writes the binary at dest, or fails and writes nothing.
download(w, url, dest, ok) ==
  LET w1 == [Log(w, "download") EXCEPT !.downloads = Append(@, dest)]
  IN IF ok THEN [w1 EXCEPT !.files[dest] = 1]
     ELSE Throw(Log(w1, "download: rejected"), DownloadError)

\* config.init(): loads the persisted records.
configInit(w) == [Log(w, "config.init") EXCEPT !.configLoaded = TRUE]

----------------------------------------------------------------------------
(* class Mkcert *)

checkMkcert(w) ==
  IF mkcertLocalPath # NoPath
  THEN Return(Log(w, "logger.error: mkcertPath does not exist"),
              exists(w, mkcertLocalPath))
  ELSE Return(w, exists(w, mkcertSavedPath))

\* Mutant of getMkcertBinnary: the managed binary stands in for a missing
\* caller-supplied one.
getMkcertBinnary_fallback(w) ==
  LET w1 == checkMkcert(w)
  IN Return(w1, IF w1.ret
                THEN (IF mkcertLocalPath # NoPath THEN mkcertLocalPath ELSE mkcertSavedPath)
                ELSE IF exists(w1, mkcertSavedPath) THEN mkcertSavedPath
                ELSE Undefined)

getMkcertBinnary(w) ==
  LET w1 == checkMkcert(w)
  IN Return(w1, IF w1.ret
                THEN (IF mkcertLocalPath # NoPath THEN mkcertLocalPath ELSE mkcertSavedPath)
                ELSE Undefined)

getCertificate(w) ==
  LET k == readFile(w, KEY_FILE_PATH)
  IN IF Failed(k) THEN k
     ELSE LET c == readFile(k, CERT_FILE_PATH)
          IN IF Failed(c) THEN c
             ELSE Return(Log(c, "getCertificate"), [key |-> k.ret, cert |-> c.ret])

\* Mutant of createCertificate: without a binary nothing is invoked.
createCertificate_skipWithoutBinary(w, hostnames, ok) ==
  LET w1 == getMkcertBinnary(w)
      mkcertBinnary == w1.ret
      cmd == [bin |-> mkcertBinnary, keyFile |-> KEY_FILE_PATH,
              certFile |-> CERT_FILE_PATH, hosts |-> hostnames]
      w3 == exec(w1, cmd, ok)
  IN IF mkcertBinnary = Undefined
     THEN Log(w1, "debug: Mkcert does not exist")
     ELSE IF Failed(w3) THEN w3 ELSE Log(w3, "logger.info: certificate saved")

createCertificate(w, hostnames, ok) ==
  LET w1 == getMkcertBinnary(w)
      mkcertBinnary == w1.ret
      w2 == IF mkcertBinnary = Undefined
            THEN Log(w1, "debug: Mkcert does not exist")
            ELSE w1
      cmd == [bin |-> mkcertBinnary, keyFile |-> KEY_FILE_PATH,
              certFile |-> CERT_FILE_PATH, hosts |-> hostnames]
      w3 == exec(w2, cmd, ok)
  IN IF Failed(w3) THEN w3 ELSE Log(w3, "logger.info: certificate saved")

getLatestHash(w) ==
  Return(Log(w, "getLatestHash"),
         [key |-> getHash(w, KEY_FILE_PATH), cert |-> getHash(w, CERT_FILE_PATH)])

\* Mutant of regenerate: the record is written before the invocation.
regenerate_recordFirst(w, hosts, ok) ==
  LET w0 == getLatestHash(w)
      w1 == createCertificate(recordUpdate(w0, hosts, w0.ret), hosts, ok)
  IN w1

\* Mutant of regenerate: the record is not written.
regenerate_noRecord(w, hosts, ok) == createCertificate(w, hosts, ok)

\* Mutant of regenerate: the files are hashed before they are generated.
regenerate_hashBefore(w, hosts, ok) ==
  LET w0 == getLatestHash(w)
      w1 == createCertificate(w0, hosts, ok)
  IN IF Failed(w1) THEN w1 ELSE recordUpdate(w1, hosts, w0.ret)

regenerate(w, hosts, ok) ==
  LET w1 == createCertificate(w, hosts, ok)
  IN IF Failed(w1) THEN w1
     ELSE LET w2 == getLatestHash(w1)
          IN recordUpdate(w2, hosts, w2.ret)

downloadMkcert(w, sourceUrl, distPath, ok) == download(w, sourceUrl, distPath, ok)

\* updateMkcert with one of its steps left out or changed, for the mutants
\* below: the shouldUpdate check, the breakingChange check, the version update
\* after an upgrade, the silent return on a missing SourceInfo.
updateWith(w, mkcertExist, src, dlOk, checkShould, checkBreaking, persist, failOnNoSource) ==
  LET w1 == Log(w, "getSourceInfo")
  IN IF ~IsSome(src)
     THEN (IF failOnNoSource THEN Throw(w1, DownloadError)
           ELSE Log(w1, "debug: update skipped, no source info"))
     ELSE LET sourceInfo == Val(src)
          IN IF mkcertExist
             THEN LET versionInfo == versionCompare(w1, sourceInfo.version)
                      w2 == [Log(w1, "compare") EXCEPT !.info = Some(versionInfo)]
                  IN IF checkShould /\ ~versionInfo.shouldUpdate
                     THEN Log(w2, "debug: latest version, update skipped")
                     ELSE IF checkBreaking /\ versionInfo.breakingChange
                     THEN Log(w2, "debug: breaking changes, update skipped")
                     ELSE LET w3 == downloadMkcert(w2, sourceInfo.downloadUrl,
                                                   mkcertSavedPath, dlOk)
                          IN IF Failed(w3) THEN w3
                             ELSE IF persist
                             THEN versionUpdate(w3, versionInfo.nextVersion)
                             ELSE w3
             ELSE LET w3 == downloadMkcert(Log(w1, "debug: mkcert does not exist"),
                                           sourceInfo.downloadUrl, mkcertSavedPath, dlOk)
                  IN IF Failed(w3) THEN w3
                     ELSE versionUpdate(w3, sourceInfo.version)

\* Mutant of updateMkcert: a missing SourceInfo is an error.
updateMkcert_throwOnNoSource(w, mkcertExist, src, dlOk) ==
  updateWith(w, mkcertExist, src, dlOk, TRUE, TRUE, TRUE, TRUE)

\* Mutant of updateMkcert: a breaking change is downloaded like any update.
updateMkcert_noBreakingCheck(w, mkcertExist, src, dlOk) ==
  updateWith(w, mkcertExist, src, dlOk, TRUE, FALSE, TRUE, FALSE)

\* Mutant of updateMkcert: the new version is not persisted after the download.
updateMkcert_noPersist(w, mkcertExist, src, dlOk) ==
  updateWith(w, mkcertExist, src, dlOk, TRUE, TRUE, FALSE, FALSE)

\* Mutant of updateMkcert: shouldUpdate is not looked at.
updateMkcert_noShouldCheck(w, mkcertExist, src, dlOk) ==
  updateWith(w, mkcertExist, src, dlOk, FALSE, TRUE, TRUE, FALSE)

\* Mutant of updateMkcert: on a first install the version is persisted before
\* the download.
updateMkcert_persistFirst(w, mkcertExist, src, dlOk) ==
  IF ~IsSome(src) \/ mkcertExist
  THEN updateWith(w, mkcertExist, src, dlOk, TRUE, TRUE, TRUE, FALSE)
  ELSE downloadMkcert(
         versionUpdate(Log(Log(w, "getSourceInfo"), "debug: mkcert does not exist"),
                       Val(src).version),
         Val(src).downloadUrl, mkcertSavedPath, dlOk)

updateMkcert(w, mkcertExist, src, dlOk) ==
  LET w1 == Log(w, "getSourceInfo")
  IN IF ~IsSome(src)
     THEN Log(w1, "debug: update skipped, no source info")
     ELSE LET sourceInfo == Val(src)
          IN IF mkcertExist
             THEN LET versionInfo == versionCompare(w1, sourceInfo.version)
                      w2 == [Log(w1, "compare") EXCEPT !.info = Some(versionInfo)]
                  IN IF ~versionInfo.shouldUpdate
                     THEN Log(w2, "debug: latest version, update skipped")
                     ELSE IF versionInfo.breakingChange
                     THEN Log(w2, "debug: breaking changes, update skipped")
                     ELSE LET w3 == downloadMkcert(w2, sourceInfo.downloadUrl,
                                                   mkcertSavedPath, dlOk)
                          IN IF Failed(w3) THEN w3
                             ELSE versionUpdate(w3, versionInfo.nextVersion)
             ELSE LET w3 == downloadMkcert(Log(w1, "debug: mkcert does not exist"),
                                           sourceInfo.downloadUrl, mkcertSavedPath, dlOk)
                  IN IF Failed(w3) THEN w3
                     ELSE versionUpdate(w3, sourceInfo.version)

\* Mutant of init: the version is compared whether the binary exists or not.
init_alwaysCompare(w, src, dlOk) ==
  LET w1 == checkMkcert(configInit(w))
      exist == w1.ret
  IN IF autoUpgrade \/ ~exist
     THEN updateMkcert(w1, TRUE, src, dlOk)
     ELSE w1

\* Mutant of init: the update check runs on every call.
init_alwaysUpdate(w, src, dlOk) ==
  LET w1 == checkMkcert(configInit(w))
  IN updateMkcert(w1, w1.ret, src, dlOk)

\* Mutant of init: a failed update is caught and the call goes on.
init_swallowFailure(w, src, dlOk) ==
  LET w1 == checkMkcert(configInit(w))
      exist == w1.ret
  IN IF autoUpgrade \/ ~exist
     THEN Throw(updateMkcert(w1, exist, src, dlOk), NoError)
     ELSE w1

init(w, src, dlOk) ==
  LET w1 == checkMkcert(configInit(w))
      exist == w1.ret
  IN IF autoUpgrade \/ ~exist
     THEN updateMkcert(w1, exist, src, dlOk)
     ELSE w1

\* Mutant of renew: the certificate files are not hashed.
renew_noTamperCheck(w, hosts, ok) ==
  LET w1 == Log(w, "record.contains")
  IN IF ~recordContains(w1, hosts)
     THEN regenerate(Log(w1, "logger.info: hosts changed"), hosts, ok)
     ELSE Log(w1, "debug: skip regenerate")

\* Mutant of renew: the hosts are not compared.
renew_noHostCheck(w, hosts, ok) ==
  LET w2 == getLatestHash(w)
      hash == w2.ret
  IN IF recordTamper(w2, hash)
     THEN regenerate(Log(w2, "logger.info: hash changed"), hosts, ok)
     ELSE Log(w2, "debug: skip regenerate")

\* Mutant of renew: the files are hashed before the hosts are compared, and
\* a change of hosts does not end the call.
renew_bothChecks(w, hosts, ok) ==
  LET w0 == getLatestHash(Log(w, "record.contains"))
      hash == w0.ret
      w1 == IF ~recordContains(w0, hosts)
            THEN regenerate(Log(w0, "logger.info: hosts changed"), hosts, ok)
            ELSE w0
  IN IF Failed(w1) THEN w1
     ELSE IF recordTamper(w1, hash)
     THEN regenerate(Log(w1, "logger.info: hash changed"), hosts, ok)
     ELSE Log(w1, "debug: skip regenerate")

renew(w, hosts, ok) ==
  LET w1 == Log(w, "record.contains")
  IN IF ~recordContains(w1, hosts)
     THEN regenerate(Log(w1, "logger.info: hosts changed"), hosts, ok)
     ELSE LET w2 == getLatestHash(w1)
              hash == w2.ret
          IN IF recordTamper(w2, hash)
             THEN regenerate(Log(w2, "logger.info: hash changed"), hosts, ok)
             ELSE Log(w2, "debug: skip regenerate")

\* Mutant of install: the host list's length is not looked at.
install_noLengthCheck(w, hosts, ok) ==
  LET w1 == renew(w, hosts, ok)
  IN IF Failed(w1) THEN w1 ELSE getCertificate(w1)

\* Mutant of install: the binary is provisioned first.
install_provisions(w, hosts, ok) ==
  LET w0 == init(w, None, TRUE)
      w1 == IF Len(hosts) # 0 THEN renew(w0, hosts, ok) ELSE w0
  IN IF Failed(w1) THEN w1 ELSE getCertificate(w1)

install(w, hosts, ok) ==
  LET w1 == IF Len(hosts) # 0 THEN renew(w, hosts, ok) ELSE w
  IN IF Failed(w1) THEN w1 ELSE getCertificate(w1)

----------------------------------------------------------------------------
(* The plugin (index.ts) *)

\* Array.from(new Set(hosts)): the first occurrence of every host, in order.
RECURSIVE uniqueHosts(_)
uniqueHosts(hosts) ==
  IF hosts = <<>> THEN <<>>
  ELSE LET front == uniqueHosts(SubSeq(hosts, 1, Len(hosts) - 1))
           last == hosts[Len(hosts)]
       IN IF last \in Range(front) THEN front ELSE Append(front, last)

\* Mutant of config: the hosts are passed on as they are.
config_noDedup(w, https, hosts, src, dlOk, ok) ==
  IF ~https THEN Return(w, None)
  ELSE LET w1 == init(Log(w, "mkcert.init"), src, dlOk)
       IN IF Failed(w1) THEN w1
          ELSE LET w2 == install([Log(w1, "mkcert.install")
                                    EXCEPT !.installArg = Some(hosts)], hosts, ok)
               IN IF Failed(w2) THEN w2
                  ELSE Return(Log(w2, "return server.https"), Some(w2.ret))

\* Mutant of config: install does not wait for init to end well.
config_ignoreInitFailure(w, https, hosts, src, dlOk, ok) ==
  IF ~https THEN Return(w, None)
  ELSE LET w1 == init(Log(w, "mkcert.init"), src, dlOk)
           uniq == uniqueHosts(hosts)
           w2 == install([Log(Throw(w1, NoError), "mkcert.install")
                            EXCEPT !.installArg = Some(uniq)], uniq, ok)
       IN IF Failed(w2) THEN w2
          ELSE Return(Log(w2, "return server.https"), Some(w2.ret))

\* plugin(options).config(config): https is config.server.https, hosts is
\* options.hosts (or the default hosts).
config(w, https, hosts, src, dlOk, ok) ==
  IF ~https THEN Return(w, None)
  ELSE LET w1 == init(Log(w, "mkcert.init"), src, dlOk)
       IN IF Failed(w1) THEN w1
          ELSE LET uniq == uniqueHosts(hosts)
                   w2 == install([Log(w1, "mkcert.install")
                                    EXCEPT !.installArg = Some(uniq)], uniq, ok)
               IN IF Failed(w2) THEN w2
                  ELSE Return(Log(w2, "return server.https"), Some(w2.ret))

----------------------------------------------------------------------------
(* The state machine *)

NoCall ==
  [op |-> "none", hosts |-> <<>>, src |-> None,
   pre |-> [files |-> [p \in Paths |-> NoFile], version |-> None, record |-> None],
   prevInstall |-> None, touched |-> FALSE,
   https |-> FALSE, installArg |-> None,
   trace |-> <<>>, cmds |-> <<>>, downloads |-> <<>>, info |-> None,
   err |-> NoError, ret |-> None]

\* Mkcert.create(options) in a project where nothing was provisioned yet; a
\* caller-supplied binary may or may not be there.
Init ==
  /\ autoUpgrade \in BOOLEAN
  /\ mkcertLocalPath \in {NoPath, LocalPath}
  /\ files \in {[p \in Paths |-> IF p = LocalPath THEN b ELSE NoFile] : b \in {NoFile, 1}}
  /\ version = None
  /\ record = None
  /\ configLoaded = FALSE
  /\ call = NoCall

\* The persisted state and the file system as a call finds them.
Pre == [files |-> files, version |-> version, record |-> record]

Commit(w) ==
  /\ files' = w.files
  /\ version' = w.version
  /\ record' = w.record
  /\ configLoaded' = w.configLoaded
  /\ UNCHANGED <<autoUpgrade, mkcertLocalPath>>

\* The hosts of the previous install call, when it succeeded, and whether the
\* key or certificate file was modified from outside since then.  The log of
\* an install call says it of itself; the logs of the steps after it carry it
\* (prevInstall, touched) to the next install call.
PrevInstall == IF call.op = "install"
               THEN (IF call.err = NoError THEN Some(call.hosts) ELSE None)
               ELSE call.prevInstall
Touched == IF call.op = "install" THEN FALSE ELSE call.touched

InitCall(src, dlOk) ==
  \E w \in {init(World, src, dlOk)} :
     /\ Commit(w)
     /\ call' = [op |-> "init", hosts |-> <<>>, src |-> src, pre |-> Pre,
                 prevInstall |-> PrevInstall, touched |-> Touched,
                 https |-> FALSE, installArg |-> None,
                 trace |-> w.trace, cmds |-> w.cmds, downloads |-> w.downloads,
                 info |-> w.info, err |-> w.err, ret |-> None]

Install(hosts, ok) ==
  /\ configLoaded
  /\ \E w \in {install(World, hosts, ok)} :
        /\ Commit(w)
        /\ call' = [op |-> "install", hosts |-> hosts, src |-> None, pre |-> Pre,
                    prevInstall |-> None, touched |-> FALSE,
                    https |-> FALSE, installArg |-> Some(hosts),
                    trace |-> w.trace, cmds |-> w.cmds, downloads |-> w.downloads,
                    info |-> w.info, err |-> w.err,
                    ret |-> IF Failed(w) THEN None ELSE Some(w.ret)]

\* An external actor alters or removes the key or the certificate file.
ExternalWrite(path, remove) ==
  /\ path \in {KEY_FILE_PATH, CERT_FILE_PATH}
  /\ IF remove THEN files[path] # NoFile ELSE files[path] > 0
  /\ files' = [files EXCEPT ![path] = IF remove THEN NoFile ELSE Altered(@)]
  /\ call' = [NoCall EXCEPT !.prevInstall = PrevInstall, !.touched = TRUE, !.op = "external"]
  /\ UNCHANGED <<autoUpgrade, mkcertLocalPath, version, record, configLoaded>>

\* An external actor puts a binary at, or removes it from, one of the two paths.
ExternalBinary(path, c) ==
  /\ path \in {mkcertSavedPath, LocalPath}
  /\ files[path] # c
  /\ files' = [files EXCEPT ![path] = c]
  /\ call' = [NoCall EXCEPT !.prevInstall = PrevInstall, !.touched = Touched, !.op = "external"]
  /\ UNCHANGED <<autoUpgrade, mkcertLocalPath, version, record, configLoaded>>

\* The dev server starts: the plugin's config hook runs.
PluginConfig(https, hosts, src, dlOk, ok) ==
  \E w \in {config(World, https, hosts, src, dlOk, ok)} :
     /\ Commit(w)
     /\ call' = [op |-> "config", hosts |-> hosts, src |-> src, pre |-> Pre,
                 prevInstall |-> None, touched |-> FALSE,
                 https |-> https, installArg |-> w.installArg,
                 trace |-> w.trace, cmds |-> w.cmds, downloads |-> w.downloads,
                 info |-> w.info, err |-> w.err,
                 ret |-> IF Failed(w) THEN None ELSE w.ret]

DoInit == \E src \in SourceInfos, dlOk \in BOOLEAN : InitCall(src, dlOk)
DoInstall == \E hosts \in HostLists, ok \in BOOLEAN : Install(hosts, ok)
DoExternalWrite == \E path \in {KEY_FILE_PATH, CERT_FILE_PATH}, remove \in BOOLEAN : ExternalWrite(path, remove)
DoExternalBinary == \E path \in {mkcertSavedPath, LocalPath}, c \in {NoFile, 1} : ExternalBinary(path, c)

\* Provisioning: init calls against every source answer, and binaries that
\* come and go.
NextProvision == DoInit \/ DoExternalBinary
SpecProvision == Init /\ [][NextProvision]_vars

\* Certificates: install calls, outside modifications of the certificate files
\* and binaries that come and go, from the state a first init() leaves when the
\* source provider answers nothing (the records are loaded, nothing is
\* downloaded).  install does not read autoUpgrade.
InitCert ==
  /\ autoUpgrade = FALSE
  /\ mkcertLocalPath \in {NoPath, LocalPath}
  /\ files \in {[p \in Paths |-> IF p = LocalPath THEN b ELSE NoFile] : b \in {NoFile, 1}}
  /\ version = None
  /\ record = None
  /\ configLoaded = TRUE
  /\ call = [NoCall EXCEPT !.op = "init"]
NextCert == DoInstall \/ DoExternalWrite \/ DoExternalBinary
SpecCert == InitCert /\ [][NextCert]_vars

\* The plugin: the config hook run again and again (each dev server start
\* makes a Mkcert of its own) with any hosts option, against a source that
\* answers nothing or one version.
PluginSources == {None, Some([version |-> <<0, 0, 1>>, downloadUrl |-> DownloadUrl])}
DoConfig ==
  \E https \in BOOLEAN, hosts \in HostLists, src \in PluginSources,
     dlOk \in BOOLEAN, ok \in BOOLEAN :
       PluginConfig(https, hosts, src, dlOk, ok)
NextPlugin == DoConfig
SpecPlugin == Init /\ [][NextPlugin]_vars

----------------------------------------------------------------------------
(* Reading the log of a call *)

HasEv(c, ev) == \E i \in 1..Len(c.trace) : c.trace[i] = ev
CountEv(c, ev) == Cardinality({i \in 1..Len(c.trace) : c.trace[i] = ev})
Before(c, a, b) ==
  \A j \in 1..Len(c.trace) :
    c.trace[j] = b => \E i \in 1..(j - 1) : c.trace[i] = a

LiveHash(f) == [key |-> HashOf(f[KEY_FILE_PATH]), cert |-> HashOf(f[CERT_FILE_PATH])]
CertOnDisk(f) == f[KEY_FILE_PATH] # NoFile /\ f[CERT_FILE_PATH] # NoFile

----------------------------------------------------------------------------
(* Certificates: C1 - C5 *)

\* C1: install called with an empty host list never invokes the external
\* binary and never modifies CertRecord (nor the files); it returns the
\* key/cert pair that is on disk, and ends in an error, without an invocation,
\* when the files are not both there.
C1_EmptyHostsNeverRegenerates ==
  (call.op = "install" /\ call.hosts = <<>>) =>
    /\ call.cmds = <<>>
    /\ ~HasEv(call, "exec")
    /\ record = call.pre.record
    /\ files = call.pre.files
    /\ IF CertOnDisk(call.pre.files)
       THEN /\ call.err = NoError
            /\ call.ret = Some([key |-> call.pre.files[KEY_FILE_PATH],
                                cert |-> call.pre.files[CERT_FILE_PATH]])
       ELSE /\ call.err = ENOENT
            /\ call.ret = None

\* An empty install on top of a record whose hash no longer matches the files:
\* nothing is regenerated and the altered files are returned.
C1_Witness ==
  /\ call.op = "install" /\ call.hosts = <<>>
  /\ call.err = NoError
  /\ IsSome(record)
  /\ Val(record).hash # LiveHash(files)
  /\ call.ret = Some([key |-> files[KEY_FILE_PATH], cert |-> files[CERT_FILE_PATH]])

\* An empty install with no certificate on disk ends in the read error.
C1_WitnessNoFiles ==
  /\ call.op = "install" /\ call.hosts = <<>>
  /\ call.err = ENOENT

\* C2: a step that is an install(H), H not empty, after a successful
\* install(H) with the same list and no outside modification of the key or
\* certificate file since, invokes nothing and leaves CertRecord and the files
\* as they are; it returns the certificate.
C2_SecondInstallIsNoOp ==
  [][(/\ call'.op = "install"
      /\ call'.hosts # <<>>
      /\ PrevInstall = Some(call'.hosts)
      /\ ~Touched)
     => /\ call'.cmds = <<>>
        /\ record' = record
        /\ files' = files
        /\ call'.err = NoError]_vars

\* An install of the hosts the record already holds, with matching files:
\* skipped.
C2_Witness ==
  /\ call.op = "install" /\ call.hosts # <<>>
  /\ call.err = NoError
  /\ IsSome(call.pre.record)
  /\ Val(call.pre.record).hosts = call.hosts
  /\ HasEv(call, "debug: skip regenerate")
  /\ call.cmds = <<>>
  /\ record = call.pre.record

\* C3: a step that is an install(H), H not empty, after a successful
\* install(H) and an outside modification that left the key or the
\* certificate file with a hash that differs from CertRecord.hash, invokes
\* the external binary once, with H; when the invocation succeeds, CertRecord
\* is overwritten with H and the hash of the new files (a failed invocation
\* is C5's case).
C3_TamperedFilesRegenerate ==
  [][(/\ call'.op = "install"
      /\ call'.hosts # <<>>
      /\ PrevInstall = Some(call'.hosts)
      /\ Touched
      /\ IsSome(record)
      /\ LiveHash(files) # Val(record).hash)
     => /\ Len(call'.cmds) = 1
        /\ call'.cmds[1].hosts = call'.hosts
        /\ HasEv(call', "logger.info: hash changed")
        /\ call'.err \in {NoError, ExecError}
        /\ call'.err = NoError =>
             /\ record' = Some([hosts |-> call'.hosts, hash |-> LiveHash(files')])
             /\ LiveHash(files') # LiveHash(files)
             /\ LiveHash(files') # Val(record).hash]_vars

\* A removed key file is detected and the certificate regenerated.
C3_Witness ==
  /\ call.op = "install" /\ call.hosts # <<>>
  /\ IsSome(call.pre.record)
  /\ Val(call.pre.record).hosts = call.hosts
  /\ call.pre.files[KEY_FILE_PATH] = NoFile
  /\ HasEv(call, "logger.info: hash changed")
  /\ call.err = NoError
  /\ record = Some([hosts |-> call.hosts, hash |-> LiveHash(files)])

\* C4 as claimed, for every H1: a step that is an install(H2), H2 not empty,
\* after a successful install(H1) invokes the external binary exactly once
\* when H2 and H1 differ as sets.  It fails for the empty H1: install([])
\* succeeds without touching the record, which may hold H2 already.
C4_AsClaimed ==
  [][(/\ call'.op = "install"
      /\ call'.hosts # <<>>
      /\ IsSome(PrevInstall)
      /\ Range(call'.hosts) # Range(Val(PrevInstall)))
     => /\ Len(call'.cmds) = 1
        /\ call'.cmds[1].hosts = call'.hosts]_vars

\* C4 (amended): a step that is an install(H2), H2 not empty, after a successful
\* install(H1), H1 not empty: when H2 and H1 differ as sets the hosts are
\* found changed and the external binary is invoked exactly once, with H2;
\* when they are equal as sets the hosts are not found changed, whatever the
\* order of the elements.
C4_HostSetDecidesRegeneration ==
  [][(/\ call'.op = "install"
      /\ call'.hosts # <<>>
      /\ IsSome(PrevInstall)
      /\ Val(PrevInstall) # <<>>)
     => IF Range(call'.hosts) # Range(Val(PrevInstall))
        THEN /\ HasEv(call', "logger.info: hosts changed")
             /\ Len(call'.cmds) = 1
             /\ call'.cmds[1].hosts = call'.hosts
             /\ CountEv(call', "exec") = 1
        ELSE /\ ~HasEv(call', "logger.info: hosts changed")
             /\ (~Touched => call'.cmds = <<>>)]_vars

\* A proper subset of the recorded hosts is installed: regenerated once.
C4_Witness ==
  /\ call.op = "install"
  /\ IsSome(call.pre.record)
  /\ Range(call.hosts) # {}
  /\ Range(call.hosts) \subseteq Range(Val(call.pre.record).hosts)
  /\ Range(call.hosts) # Range(Val(call.pre.record).hosts)
  /\ Len(call.cmds) = 1
  /\ call.err = NoError
  /\ record = Some([hosts |-> call.hosts, hash |-> LiveHash(files)])

\* A reordering of the recorded hosts is installed: skipped.
C4_WitnessReordered ==
  /\ call.op = "install"
  /\ IsSome(call.pre.record)
  /\ Val(call.pre.record).hosts # call.hosts
  /\ Range(Val(call.pre.record).hosts) = Range(call.hosts)
  /\ Len(call.hosts) = Len(Val(call.pre.record).hosts)
  /\ call.cmds = <<>>
  /\ call.err = NoError

\* C5: when the invocation of the external binary fails, install ends in the
\* command's error, returns no certificate and leaves CertRecord as it found
\* it; and the record is written only after a successful invocation.
C5_FailedInvocationKeepsRecord ==
  (call.op = "install") =>
    /\ (HasEv(call, "exec") /\ ~HasEv(call, "logger.info: certificate saved")) =>
         /\ call.err = ExecError
         /\ call.ret = None
         /\ record = call.pre.record
    /\ HasEv(call, "record.update") =>
         /\ Before(call, "logger.info: certificate saved", "record.update")
         /\ Before(call, "exec", "logger.info: certificate saved")
    /\ record # call.pre.record => HasEv(call, "record.update")

\* The binary is there, its invocation fails, and a record exists to be kept.
C5_Witness ==
  /\ call.op = "install"
  /\ Len(call.cmds) = 1
  /\ call.cmds[1].bin # Undefined
  /\ call.err = ExecError
  /\ IsSome(record)
  /\ Range(Val(record).hosts) # Range(call.hosts)

----------------------------------------------------------------------------
(* Provisioning: C6 - C10 *)

\* What the presence check answered when the call began.
PreExist(c) ==
  IF mkcertLocalPath # NoPath
  THEN c.pre.files[mkcertLocalPath] # NoFile
  ELSE c.pre.files[mkcertSavedPath] # NoFile

\* The installed version (VersionStore) and the latest one (SourceInfo) of an
\* init call, when both are there and parse.
BothParse(c) ==
  /\ IsSome(c.src)
  /\ IsSome(c.pre.version)
  /\ IsSome(parseVersion(Val(c.pre.version)))
  /\ IsSome(parseVersion(Val(c.src).version))
Installed(c) == Val(parseVersion(Val(c.pre.version)))
Latest(c) == Val(parseVersion(Val(c.src).version))
\* compare(latest) as the call's VersionManger computes it.
Compared(c) == versionCompare([version |-> c.pre.version], Val(c.src).version)

\* C6: when the SourceProvider returns no SourceInfo, init completes without
\* an error, downloads nothing, leaves VersionStore unchanged and leaves every
\* file, the binary included, as it was.
C6_NoSourceInfoIsHarmless ==
  (call.op = "init" /\ call.src = None) =>
    /\ call.err = NoError
    /\ call.downloads = <<>>
    /\ ~HasEv(call, "download")
    /\ version = call.pre.version
    /\ files = call.pre.files
    /\ (autoUpgrade \/ ~PreExist(call)) => HasEv(call, "debug: update skipped, no source info")

\* No binary, no source info: init ends well and the binary is still absent.
C6_Witness ==
  /\ call.op = "init" /\ call.src = None
  /\ HasEv(call, "getSourceInfo")
  /\ ~PreExist(call)
  /\ files[mkcertSavedPath] = NoFile
  /\ call.err = NoError

\* A binary is installed, the source answers nothing: it stays installed.
C6_WitnessInstalled ==
  /\ call.op = "init" /\ call.src = None
  /\ HasEv(call, "getSourceInfo")
  /\ PreExist(call)
  /\ IsSome(version)
  /\ call.err = NoError

\* C7: when the binary exists and the latest version has a greater major
\* version than the installed one, compare yields shouldUpdate and
\* breakingChange, and init, with or without autoUpgrade, downloads nothing and
\* leaves VersionStore and the binary as they were; with autoUpgrade the
\* comparison is the one the call made.
C7_BreakingUpdateNeverApplied ==
  (/\ call.op = "init"
   /\ PreExist(call)
   /\ BothParse(call)
   /\ Latest(call).major > Installed(call).major)
  => /\ Compared(call).shouldUpdate
     /\ Compared(call).breakingChange
     /\ call.downloads = <<>>
     /\ version = call.pre.version
     /\ files = call.pre.files
     /\ call.err = NoError
     /\ autoUpgrade => /\ call.info = Some(Compared(call))
                       /\ HasEv(call, "debug: breaking changes, update skipped")

\* An upgrade check that met a greater major version and skipped it.
C7_Witness ==
  /\ call.op = "init"
  /\ autoUpgrade
  /\ PreExist(call)
  /\ BothParse(call)
  /\ Latest(call).major > Installed(call).major
  /\ HasEv(call, "debug: breaking changes, update skipped")

\* C8: when the binary exists, the update check runs and the latest version
\* has the installed one's major version and is greater, compare yields
\* shouldUpdate without breakingChange and the replacement is downloaded, once,
\* to the managed install path; after a successful download VersionStore holds
\* the latest version, and a failed one is the only error.
C8_CompatibleUpdateProceeds ==
  (/\ call.op = "init"
   /\ PreExist(call)
   /\ HasEv(call, "getSourceInfo")
   /\ BothParse(call)
   /\ Latest(call).major = Installed(call).major
   /\ Greater(Latest(call), Installed(call)))
  => /\ call.info = Some(Compared(call))
     /\ Compared(call).shouldUpdate
     /\ ~Compared(call).breakingChange
     /\ call.downloads = <<mkcertSavedPath>>
     /\ call.err \in {NoError, DownloadError}
     /\ call.err = NoError =>
          /\ version = Some(Val(call.src).version)
          /\ files[mkcertSavedPath] # NoFile
          /\ Before(call, "download", "version.update")

\* A minor or patch upgrade that was downloaded and persisted.
C8_Witness ==
  /\ call.op = "init"
  /\ PreExist(call)
  /\ BothParse(call)
  /\ Latest(call).major = Installed(call).major
  /\ Greater(Latest(call), Installed(call))
  /\ call.err = NoError
  /\ call.downloads = <<mkcertSavedPath>>
  /\ version = Some(Val(call.src).version)
  /\ version # call.pre.version

\* C9: when the binary exists and the latest version is equal to or lower than
\* the installed one, compare yields no shouldUpdate and init downloads
\* nothing and leaves VersionStore and the files unchanged.
C9_NoUpdateWhenNotNewer ==
  (/\ call.op = "init"
   /\ PreExist(call)
   /\ BothParse(call)
   /\ ~Greater(Latest(call), Installed(call)))
  => /\ ~Compared(call).shouldUpdate
     /\ call.downloads = <<>>
     /\ version = call.pre.version
     /\ files = call.pre.files
     /\ call.err = NoError
     /\ HasEv(call, "compare") => /\ call.info = Some(Compared(call))
                                  /\ HasEv(call, "debug: latest version, update skipped")

\* An upgrade check that met a lower version.
C9_Witness ==
  /\ call.op = "init"
  /\ PreExist(call)
  /\ BothParse(call)
  /\ Greater(Installed(call), Latest(call))
  /\ HasEv(call, "debug: latest version, update skipped")

\* An upgrade check that met the installed version.
C9_WitnessEqual ==
  /\ call.op = "init"
  /\ PreExist(call)
  /\ BothParse(call)
  /\ Installed(call) = Latest(call)
  /\ HasEv(call, "debug: latest version, update skipped")

\* C10: when the binary is absent and SourceInfo is available, init downloads
\* the binary, once, to the managed install path without comparing versions,
\* whatever the fetched version and the one in VersionStore are; after a
\* successful download VersionStore holds the fetched version.
C10_AbsentBinaryAlwaysDownloaded ==
  (/\ call.op = "init"
   /\ ~PreExist(call)
   /\ IsSome(call.src))
  => /\ call.downloads = <<mkcertSavedPath>>
     /\ ~HasEv(call, "compare")
     /\ call.info = None
     /\ call.err \in {NoError, DownloadError}
     /\ call.err = NoError =>
          /\ version = Some(Val(call.src).version)
          /\ files[mkcertSavedPath] # NoFile
          /\ Before(call, "download", "version.update")

\* The binary is gone, VersionStore remembers a version greater than the
\* fetched one: downloaded all the same.
C10_Witness ==
  /\ call.op = "init"
  /\ ~PreExist(call)
  /\ BothParse(call)
  /\ Greater(Installed(call), Latest(call))
  /\ call.err = NoError
  /\ call.downloads = <<mkcertSavedPath>>
  /\ version = Some(Val(call.src).version)

\* The fetched version does not parse: downloaded and persisted as it is.
C10_WitnessUnparsable ==
  /\ call.op = "init"
  /\ ~PreExist(call)
  /\ IsSome(call.src)
  /\ Val(call.src).version = Garbage
  /\ call.err = NoError
  /\ version = Some(Garbage)

----------------------------------------------------------------------------
(* Provisioning: C11, C12, C14, C15 *)

\* C11: init runs the update check exactly when autoUpgrade is requested or
\* the binary is absent; with the binary present and no autoUpgrade it does
\* not query the SourceProvider, downloads nothing and leaves VersionStore and
\* the files as they were.
C11_UpdateCheckOnlyWhenAsked ==
  (call.op = "init") =>
    /\ HasEv(call, "getSourceInfo") <=> (autoUpgrade \/ ~PreExist(call))
    /\ CountEv(call, "getSourceInfo") <= 1
    /\ (~autoUpgrade /\ PreExist(call)) =>
         /\ call.downloads = <<>>
         /\ ~HasEv(call, "compare")
         /\ ~HasEv(call, "version.update")
         /\ version = call.pre.version
         /\ files = call.pre.files
         /\ call.err = NoError

\* Without autoUpgrade, a present binary and a source that offers a compatible
\* newer version: nothing is looked up.
C11_Witness ==
  /\ call.op = "init"
  /\ ~autoUpgrade
  /\ PreExist(call)
  /\ BothParse(call)
  /\ Latest(call).major = Installed(call).major
  /\ Greater(Latest(call), Installed(call))
  /\ ~HasEv(call, "getSourceInfo")
  /\ version = call.pre.version

\* C12: VersionStore is written only after a download that succeeded; when
\* the Downloader fails, init ends in the Downloader's error and VersionStore
\* (and the binary) are as the call found them, on an upgrade as on a first
\* install.
C12_VersionWrittenAfterDownload ==
  (call.op = "init") =>
    /\ HasEv(call, "download: rejected") =>
         /\ call.err = DownloadError
         /\ version = call.pre.version
         /\ files = call.pre.files
         /\ ~HasEv(call, "version.update")
    /\ HasEv(call, "version.update") =>
         /\ Before(call, "download", "version.update")
         /\ CountEv(call, "version.update") = 1
         /\ files[mkcertSavedPath] # NoFile
         /\ call.err = NoError
    /\ version # call.pre.version => HasEv(call, "version.update")

\* An upgrade whose download fails while VersionStore holds a version.
C12_Witness ==
  /\ call.op = "init"
  /\ PreExist(call)
  /\ HasEv(call, "compare")
  /\ HasEv(call, "download: rejected")
  /\ call.err = DownloadError
  /\ IsSome(version)
  /\ version = call.pre.version

\* A first install whose download fails.
C12_WitnessFirstInstall ==
  /\ call.op = "init"
  /\ ~PreExist(call)
  /\ HasEv(call, "download: rejected")
  /\ call.err = DownloadError
  /\ version = None

\* C14 as claimed: when the download fails during init, init does not fail.
C14_AsClaimed ==
  (call.op = "init" /\ HasEv(call, "download: rejected")) => call.err = NoError

\* C14 (amended): of the provisioning failures only the missing SourceInfo is
\* non-fatal; init fails exactly when the download fails, with the
\* Downloader's error, and the files and VersionStore are then as before.
C14_OnlyDownloadFailureIsFatal ==
  (call.op = "init") =>
    /\ call.src = None => call.err = NoError
    /\ call.err # NoError <=> HasEv(call, "download: rejected")
    /\ call.err \in {NoError, DownloadError}
    /\ call.err # NoError =>
         /\ call.trace[Len(call.trace)] = "download: rejected"
         /\ files = call.pre.files
         /\ version = call.pre.version

\* A first install whose download fails: init fails and no binary is there.
C14_Witness ==
  /\ call.op = "init"
  /\ HasEv(call, "download: rejected")
  /\ call.err = DownloadError
  /\ files[mkcertSavedPath] = NoFile
  /\ files[LocalPath] = NoFile

\* C15 as claimed: with a caller-supplied mkcertPath, init's presence check
\* logs the error that the path does not exist exactly when it does not exist.
\* The code logs it on every check.
C15_AsClaimed ==
  (call.op = "init" /\ mkcertLocalPath # NoPath) =>
    (HasEv(call, "logger.error: mkcertPath does not exist") <=> ~PreExist(call))

----------------------------------------------------------------------------
(* Certificates: C16 - C19 *)

\* What an install call found: whether the record held the requested hosts,
\* and whether the files still hashed to the recorded hash.
PreHostsMatch(c) ==
  /\ IsSome(c.pre.record)
  /\ Range(Val(c.pre.record).hosts) = Range(c.hosts)
PreHashMatch(c) ==
  /\ IsSome(c.pre.record)
  /\ Val(c.pre.record).hash = LiveHash(c.pre.files)
RegenerationRequired(c) ==
  /\ c.hosts # <<>>
  /\ ~(PreHostsMatch(c) /\ PreHashMatch(c))

\* C16: when a regeneration is required and the presence check finds no
\* binary, the command is still invoked, once, with the undefined binary
\* reference; install ends in the command's error, returns no certificate and
\* leaves CertRecord and the files as they were.
C16_NoBinaryStillInvokes ==
  (/\ call.op = "install"
   /\ RegenerationRequired(call)
   /\ ~PreExist(call))
  => /\ Len(call.cmds) = 1
     /\ call.cmds[1].bin = Undefined
     /\ call.cmds[1].hosts = call.hosts
     /\ Before(call, "debug: Mkcert does not exist", "exec")
     /\ call.err = ExecError
     /\ call.ret = None
     /\ ~HasEv(call, "record.update")
     /\ record = call.pre.record
     /\ files = call.pre.files

\* A certificate made earlier is on disk, the binary is gone and other hosts
\* are asked for: the call fails and does not return the old certificate.
C16_Witness ==
  /\ call.op = "install"
  /\ RegenerationRequired(call)
  /\ ~PreExist(call)
  /\ CertOnDisk(files)
  /\ IsSome(record)
  /\ call.cmds[1].bin = Undefined
  /\ call.err = ExecError
  /\ call.ret = None

\* C17: renew compares the hosts first; the files are hashed for the tamper
\* check only when the hosts match; the first check that asks for a
\* regeneration ends the call, so that one install invokes the external binary
\* at most once, also when both the hosts and the hash differ from CertRecord.
C17_ChecksInOrderFirstMatchWins ==
  (call.op = "install" /\ call.hosts # <<>>) =>
    /\ call.trace[1] = "record.contains"
    /\ Len(call.cmds) <= 1
    /\ CountEv(call, "exec") <= 1
    /\ CountEv(call, "record.update") <= 1
    /\ IF PreHostsMatch(call)
       THEN /\ call.trace[2] = "getLatestHash"
            /\ ~HasEv(call, "logger.info: hosts changed")
            /\ HasEv(call, "logger.info: hash changed") <=> ~PreHashMatch(call)
            /\ HasEv(call, "exec") <=> ~PreHashMatch(call)
       ELSE /\ call.trace[2] = "logger.info: hosts changed"
            /\ ~HasEv(call, "logger.info: hash changed")
            /\ Len(call.cmds) = 1
            /\ Before(call, "exec", "getLatestHash")
            /\ CountEv(call, "getLatestHash") <= 1

\* The hosts and the hash both differ from the record: one invocation, for
\* the change of hosts.
C17_Witness ==
  /\ call.op = "install" /\ call.hosts # <<>>
  /\ IsSome(call.pre.record)
  /\ ~PreHostsMatch(call)
  /\ ~PreHashMatch(call)
  /\ Len(call.cmds) = 1
  /\ call.err = NoError
  /\ HasEv(call, "logger.info: hosts changed")

\* C18: CertRecord changes only in an install step whose invocation of the
\* external binary succeeded, and such a step leaves in it exactly the hosts
\* it was called with (not those and the former ones) and the hash of the key
\* and certificate files as they are right after it; every other step
\* (skipped or failed install, outside modification) leaves CertRecord as it
\* is.  So CertRecord always is what the last successful regeneration wrote.
C18_RecordIsLastRegeneration ==
  [][IF call'.op = "install" /\ HasEv(call', "logger.info: certificate saved")
     THEN record' = Some([hosts |-> call'.hosts, hash |-> LiveHash(files')])
     ELSE record' = record]_vars

\* A regeneration for fewer hosts than recorded, on altered files: the record
\* holds the new hosts only, and the new files' hash.
C18_Witness ==
  /\ call.op = "install"
  /\ HasEv(call, "logger.info: certificate saved")
  /\ IsSome(call.pre.record)
  /\ ~PreHashMatch(call)
  /\ Cardinality(Range(call.hosts)) < Cardinality(Range(Val(call.pre.record).hosts))
  /\ record = Some([hosts |-> call.hosts, hash |-> LiveHash(files)])
  /\ Val(record).hash # Val(call.pre.record).hash

\* C19 as claimed: an install call made when the binary is absent provisions
\* it (the SourceProvider is asked) before the hosts are compared.
C19_AsClaimed ==
  (call.op = "install" /\ call.hosts # <<>> /\ ~PreExist(call)) =>
    /\ HasEv(call, "getSourceInfo")
    /\ Before(call, "getSourceInfo", "record.contains")

\* C19 (amended): install does not provision.  It never loads the
\* configuration, checks for an update, asks the SourceProvider, downloads or
\* writes VersionStore, and leaves the binaries as they are; with the binary
\* absent it goes straight to comparing the hosts, and a regeneration is
\* attempted without a binary.
C19_InstallNeverProvisions ==
  (call.op = "install") =>
    /\ ~HasEv(call, "config.init")
    /\ ~HasEv(call, "getSourceInfo")
    /\ ~HasEv(call, "compare")
    /\ ~HasEv(call, "download")
    /\ call.downloads = <<>>
    /\ version = call.pre.version
    /\ files[mkcertSavedPath] = call.pre.files[mkcertSavedPath]
    /\ files[LocalPath] = call.pre.files[LocalPath]
    /\ (call.hosts # <<>> /\ ~PreExist(call)) =>
         /\ call.trace[1] = "record.contains"
         /\ \A i \in 1..Len(call.cmds) : call.cmds[i].bin = Undefined

\* An install with no binary anywhere: nothing is provisioned, the
\* invocation fails.
C19_Witness ==
  /\ call.op = "install" /\ call.hosts # <<>>
  /\ ~PreExist(call)
  /\ files[mkcertSavedPath] = NoFile
  /\ files[LocalPath] = NoFile
  /\ call.downloads = <<>>
  /\ call.err = ExecError

----------------------------------------------------------------------------
(* The plugin: C13, C20 *)

\* The steps of a hook's log that belong to init, and those that belong to
\* install.
InitEvents ==
  {"config.init", "getSourceInfo", "compare", "download", "download: rejected",
   "version.update", "debug: update skipped, no source info",
   "debug: latest version, update skipped",
   "debug: breaking changes, update skipped", "debug: mkcert does not exist"}
InstallEvents ==
  {"record.contains", "getLatestHash", "exec", "record.update", "getCertificate",
   "logger.info: certificate saved", "logger.info: hosts changed",
   "logger.info: hash changed", "debug: skip regenerate",
   "debug: Mkcert does not exist"}

\* Where host h first stands in the list hosts.
FirstAt(hosts, h) == CHOOSE i \in 1..Len(hosts) :
                       /\ hosts[i] = h
                       /\ \A j \in 1..(i - 1) : hosts[j] # h

\* u is the list hosts with the duplicates removed.
Deduplicated(u, hosts) ==
  /\ Range(u) = Range(hosts)
  /\ \A i, j \in 1..Len(u) : i < j =>
       /\ u[i] # u[j]
       /\ FirstAt(hosts, u[i]) < FirstAt(hosts, u[j])

\* C13: the config hook, when server.https is not enabled, calls neither init
\* nor install, changes nothing and returns no configuration.  When it is
\* enabled, init is called first and every step of it precedes the call of
\* install; install is called only when init ended well, with the hosts
\* without their duplicates; the hook returns the key and certificate that
\* install read, after install has ended; and when init or install fails the
\* hook fails with that error and returns no https configuration.
C13_HookAwaitsInitThenInstall ==
  (call.op = "config") =>
    IF ~call.https
    THEN /\ call.trace = <<>>
         /\ call.installArg = None
         /\ call.ret = None
         /\ call.err = NoError
         /\ call.cmds = <<>> /\ call.downloads = <<>>
         /\ Pre = call.pre
    ELSE /\ call.trace[1] = "mkcert.init"
         /\ CountEv(call, "mkcert.init") = 1
         /\ CountEv(call, "mkcert.install") <= 1
         /\ \A i, j \in 1..Len(call.trace) :
              (call.trace[i] \in InitEvents /\ call.trace[j] = "mkcert.install")
                => i < j
         /\ \A i \in 1..Len(call.trace) :
              call.trace[i] \in InstallEvents \ {"debug: Mkcert does not exist"}
                => \E j \in 1..(i - 1) : call.trace[j] = "mkcert.install"
         /\ HasEv(call, "download: rejected") =>
              /\ ~HasEv(call, "mkcert.install")
              /\ call.err = DownloadError
         /\ HasEv(call, "mkcert.install") <=> IsSome(call.installArg)
         /\ IsSome(call.installArg) => Deduplicated(Val(call.installArg), call.hosts)
         /\ \A i \in 1..Len(call.cmds) :
              Deduplicated(call.cmds[i].hosts, call.hosts)
         /\ IF call.err = NoError
            THEN /\ HasEv(call, "mkcert.install")
                 /\ call.trace[Len(call.trace)] = "return server.https"
                 /\ CountEv(call, "return server.https") = 1
                 /\ call.trace[Len(call.trace) - 1] = "getCertificate"
                 /\ CertOnDisk(files)
                 /\ call.ret = Some([key |-> files[KEY_FILE_PATH],
                                     cert |-> files[CERT_FILE_PATH]])
            ELSE /\ call.ret = None
                 /\ ~HasEv(call, "return server.https")

\* https is on and a host is named twice: init downloads the binary, install
\* then generates the certificate for the hosts named once, and the hook
\* returns it.
C13_Witness ==
  /\ call.op = "config" /\ call.https
  /\ Len(call.hosts) > Cardinality(Range(call.hosts))
  /\ Before(call, "download", "mkcert.install")
  /\ HasEv(call, "download")
  /\ Before(call, "mkcert.install", "exec")
  /\ HasEv(call, "exec")
  /\ Len(Val(call.installArg)) < Len(call.hosts)
  /\ call.err = NoError
  /\ IsSome(call.ret)

\* https is on and init fails: install is not called, nothing is returned.
C13_WitnessInitFails ==
  /\ call.op = "config" /\ call.https
  /\ call.hosts # <<>>
  /\ call.err = DownloadError
  /\ call.installArg = None
  /\ call.ret = None

\* C20: with a caller-supplied mkcertPath, the binary a generation uses is
\* that path when a file is there and none when it is not -- never the
\* managed path, also when a managed binary is there or init has just
\* downloaded one; every download goes to the managed path, and the file at
\* the caller-supplied path is never written.
C20_LocalPathPreferredUnconditionally ==
  (call.op = "config") =>
    /\ \A i \in 1..Len(call.downloads) : call.downloads[i] = mkcertSavedPath
    /\ files[LocalPath] = call.pre.files[LocalPath]
    /\ (mkcertLocalPath # NoPath) =>
         \A i \in 1..Len(call.cmds) :
           /\ call.cmds[i].bin # mkcertSavedPath
           /\ call.cmds[i].bin = IF call.pre.files[mkcertLocalPath] # NoFile
                                 THEN mkcertLocalPath
                                 ELSE Undefined

\* The caller-supplied path is empty: init downloads the managed binary, and
\* the generation that follows still runs without a binary and fails.
C20_Witness ==
  /\ call.op = "config"
  /\ mkcertLocalPath # NoPath
  /\ files[mkcertLocalPath] = NoFile
  /\ call.downloads = <<mkcertSavedPath>>
  /\ files[mkcertSavedPath] # NoFile
  /\ Len(call.cmds) = 1
  /\ call.cmds[1].bin = Undefined
  /\ call.err = ExecError

\* The caller-supplied binary is there next to a managed one: the generation
\* uses the caller's.
C20_WitnessBothPresent ==
  /\ call.op = "config"
  /\ mkcertLocalPath # NoPath
  /\ call.pre.files[mkcertLocalPath] # NoFile
  /\ call.pre.files[mkcertSavedPath] # NoFile
  /\ Len(call.cmds) = 1
  /\ call.cmds[1].bin = mkcertLocalPath
  /\ call.err = NoError

====
